---- MODULE Spec2Model ----
(***************************************************************************)
(* Model of the lego_builder export pipeline (src/export_to_blender.py):   *)
(* export_from_json's collection loop over data['operations'], the mesh    *)
(* loop of export_bricks_to_mesh, export_to_file, and main with its four   *)
(* input modes; and of create_custom_assembly (src/interactive_bricks.py). *)
(***************************************************************************)
EXTENDS Integers, Sequences, FiniteSets, TLC

\* ------------------------------------------------------------------ bounds
MaxSteps == 2       \* operations per input mapping
MaxEntries == 3     \* entries of the step of a one-step input mapping
MaxBricks == 3      \* bricks of a direct export_bricks_to_mesh call

\* ------------------------------------------------------------- basic values
None == <<>>                 \* Python None, also an absent 'color'
Absent == "<absent>"         \* a key the dict does not have
Red == <<255, 0, 0>>
Green == <<0, 255, 0>>
Blue == <<0, 0, 255>>

IdQ == <<1, 0, 0, 0>>        \* identity quaternion (w, x, y, z)
Z180 == <<0, 0, 0, 1>>       \* half turn about z

Origin == <<0, 0, 0>>

\* Sum and concatenation helpers
RECURSIVE SumSeq(_)
SumSeq(s) == IF s = <<>> THEN 0 ELSE Head(s) + SumSeq(Tail(s))

RECURSIVE Flatten(_)
Flatten(ss) == IF ss = <<>> THEN <<>> ELSE Head(ss) \o Flatten(Tail(ss))

\* ------------------------------------------------------- step keys (strings)
\* JSON object keys are strings; int(i_str) parses them.
Keys == {"0", "1", "2", "x"}

IsIntKey(k) == k \in {"0", "1", "2"}

\* int(i_str) for the keys above
IntOf(k) == CASE k = "0" -> 0
              [] k = "1" -> 1
              [] k = "2" -> 2

\* ------------------------------------------------------ paths and formats
\* A string is the sequence of its characters.
Lower(c) == CASE c = "O" -> "o"
              [] c = "B" -> "b"
              [] c = "J" -> "j"
              [] OTHER -> c

\* str.lower()
LowerStr(s) == [n \in 1..Len(s) |-> Lower(s[n])]

\* str.rfind(c), 1-based; 0 when c does not occur
LastIndex(s, c) ==
    IF \E n \in 1..Len(s) : s[n] = c
    THEN CHOOSE n \in 1..Len(s) : s[n] = c /\ \A m \in (n + 1)..Len(s) : s[m] # c
    ELSE 0

\* os.path.splitext(p): the extension starts at the last dot of the last path
\* component; dots that lead the component do not start an extension.
splitext(p) ==
    LET sepIndex == LastIndex(p, "/")
        dotIndex == LastIndex(p, ".")
    IN  IF /\ dotIndex > sepIndex
           /\ \E n \in (sepIndex + 1)..(dotIndex - 1) : p[n] # "."
        THEN [root |-> SubSeq(p, 1, dotIndex - 1), ext |-> SubSeq(p, dotIndex, Len(p))]
        ELSE [root |-> p, ext |-> <<>>]

\* os.path.splitext(path)[1][1:].lower()
SuffixFormat(p) ==
    LET ext == splitext(p).ext IN LowerStr(SubSeq(ext, 2, Len(ext)))

\* str.endswith
EndsWith(s, t) ==
    Len(t) <= Len(s) /\ SubSeq(s, Len(s) - Len(t) + 1, Len(s)) = t

FmtObj == <<"o", "b", "j">>
FmtPly == <<"p", "l", "y">>
FmtStl == <<"s", "t", "l">>
FmtGlb == <<"g", "l", "b">>
FmtGltf == <<"g", "l", "t", "f">>
\* argparse choices of --format
FormatChoices == {FmtObj, FmtPly, FmtStl, FmtGlb}

\* values of --output
PathPool == {<<"m">>,
             <<"m", ".", "o", "b", "j">>,
             <<"m", ".", "O", "B", "J">>,
             <<"m", ".", "p", "l", "y">>,
             <<".", "o", "b", "j">>,
             <<"d", ".", "v", "/", "m">>,
             <<"m", ".">>,
             <<"m", ".", "g", "l", "t", "f">>}

\* ------------------------------------------------------------------ entries
\* One element of op['bricks']: a JSON object.  brick_type = Absent models a
\* dict without the 'brick_type' key, has_transform = FALSE one without
\* 'brick_transform', color = None one without 'color', has_children = FALSE
\* one that carries no sub-placements.
Entry(t, ht, pos, rot, col, hc, ch) ==
    [brick_type |-> t, has_transform |-> ht, position |-> pos, rotation |-> rot,
     color |-> col, has_children |-> hc, children |-> ch]

Prim(t, pos, rot, col) == Entry(t, TRUE, pos, rot, col, FALSE, <<>>)
Comp(pos, rot, col, ch) == Entry(Absent, TRUE, pos, rot, col, TRUE, ch)

KnownTypes == {"3001", "3002"}
BrickTypes == KnownTypes \cup {"9999"}

\* top-level primitive entries
PrimEntries == {Prim("3001", Origin, IdQ, None),
                Prim("3002", <<20, 0, 0>>, Z180, Red),
                Prim("9999", Origin, IdQ, None)}

\* leaves and inner composites used inside composites
LeafA == Prim("3001", Origin, IdQ, None)
LeafB == Prim("3002", <<0, 0, 8>>, IdQ, Blue)
InnerComp == Comp(<<0, 0, 8>>, Z180, Green, <<LeafA>>)
InnerPlain == Comp(<<20, 0, 0>>, IdQ, None, <<LeafA, LeafB>>)

CompEntries == {Comp(<<10, 0, 0>>, IdQ, Red, <<>>),
                Comp(<<10, 0, 0>>, IdQ, Red, <<LeafA, LeafB>>),
                Comp(<<10, 0, 0>>, Z180, None, <<InnerComp, LeafB>>),
                Comp(<<10, 0, 0>>, IdQ, Red, <<InnerPlain>>)}

\* entries with no 'brick_type' that are no composite either
BadEntries == {Entry(Absent, FALSE, Origin, IdQ, None, FALSE, <<>>),
               Entry(Absent, TRUE, Origin, IdQ, Red, FALSE, <<>>),
               Comp(Origin, IdQ, None,
                    <<LeafA, Entry(Absent, TRUE, Origin, IdQ, None, FALSE, <<>>)>>)}

EntryPool == PrimEntries \cup CompEntries \cup BadEntries

\* ---------------------------------------------------------------- transforms
\* Hamilton product of two quaternions (w, x, y, z)
QuatMul(p, q) ==
    << p[1]*q[1] - p[2]*q[2] - p[3]*q[3] - p[4]*q[4],
       p[1]*q[2] + p[2]*q[1] + p[3]*q[4] - p[4]*q[3],
       p[1]*q[3] - p[2]*q[4] + p[3]*q[1] + p[4]*q[2],
       p[1]*q[4] + p[2]*q[3] - p[3]*q[2] + p[4]*q[1] >>

QuatConj(q) == <<q[1], -q[2], -q[3], -q[4]>>

\* rotate vector v by the unit quaternion q: the vector part of q v q*
QuatRotate(q, v) ==
    LET r == QuatMul(QuatMul(q, <<0, v[1], v[2], v[3]>>), QuatConj(q))
    IN  <<r[2], r[3], r[4]>>

VecAdd(a, b) == <<a[1] + b[1], a[2] + b[2], a[3] + b[3]>>

\* T(q, t): rotate about the origin by q, then translate by t
ApplyTransform(q, t, v) == VecAdd(QuatRotate(q, v), t)

\* -------------------------------------------------------------------- bricks
Brick(brick_type, position, rotation) ==
    [brick_type |-> brick_type, position |-> position, rotation |-> rotation]

ValidPrimitive(e) == e.brick_type # Absent /\ e.has_transform

RECURSIVE ValidComposite(_)
ValidComposite(e) ==
    /\ e.brick_type = Absent
    /\ e.has_transform
    /\ e.has_children
    /\ \A n \in 1..Len(e.children) :
          \/ ValidPrimitive(e.children[n])
          \/ ValidComposite(e.children[n])

\* depth-first expansion of an entry placed in the frame (pos, rot)
RECURSIVE Expand(_, _, _)
RECURSIVE ExpandAll(_, _, _)
Expand(e, pos, rot) ==
    LET wpos == ApplyTransform(rot, pos, e.position)
        wrot == QuatMul(rot, e.rotation)
    IN  IF e.brick_type # Absent
        THEN <<Brick(e.brick_type, wpos, wrot)>>
        ELSE ExpandAll(e.children, wpos, wrot)
ExpandAll(es, pos, rot) ==
    IF es = <<>> THEN <<>>
    ELSE Expand(Head(es), pos, rot) \o ExpandAll(Tail(es), pos, rot)

NoError == [kind |-> "none", index |-> -1]
Err(kind, index) == [kind |-> kind, index |-> index]

\* dict_to_cbrick(d, no_check): the composite brick of d; its .bricks are the
\* leaf bricks in depth-first order.  A d that is no valid composite is an
\* error unless no_check (tolerant mode) is set.  The callee is handed the
\* dict alone, so its error carries no position in the step.
dict_to_cbrick(d, no_check) ==
    IF ValidComposite(d)
    THEN [ok |-> TRUE, bricks |-> Expand(d, Origin, IdQ), error |-> NoError]
    ELSE IF no_check
         THEN [ok |-> TRUE, bricks |-> <<>>, error |-> NoError]
         ELSE [ok |-> FALSE, bricks |-> <<>>,
               error |-> Err("CompositeExpansionError", -1)]

\* -------------------------------------------------------------------- meshes
Mesh(vs, fs, cs) == [vertices |-> vs, faces |-> fs, vcolors |-> cs]
EmptyMesh == Mesh(<<>>, <<>>, <<>>)

\* canonical local-space mesh of a brick type (0-based face indices)
CanonicalMesh(t) ==
    IF t = "3001"
    THEN Mesh(<<<<0,0,0>>, <<4,0,0>>, <<4,2,0>>, <<0,2,0>>>>,
              <<<<0,1,2>>, <<0,2,3>>>>, <<>>)
    ELSE Mesh(<<<<0,0,0>>, <<3,0,0>>, <<0,2,0>>>>, <<<<0,1,2>>>>, <<>>)

\* brick2mesh(brick, color): the canonical mesh of the brick's type placed by
\* the brick's transform; an unknown type is an error.
brick2mesh(brick, color) ==
    IF brick.brick_type \notin KnownTypes
    THEN [ok |-> FALSE, mesh |-> EmptyMesh]
    ELSE LET c == CanonicalMesh(brick.brick_type)
         IN  [ok |-> TRUE,
              mesh |-> Mesh([n \in 1..Len(c.vertices) |->
                                ApplyTransform(brick.rotation, brick.position,
                                               c.vertices[n])],
                            c.faces,
                            [n \in 1..Len(c.vertices) |-> color])]

export_brick_to_mesh(brick, color) == brick2mesh(brick, color)

\* the faces of one mesh re-indexed by the vertex offset off
OffsetFaces(fs, off) ==
    [n \in 1..Len(fs) |-> <<fs[n][1] + off, fs[n][2] + off, fs[n][3] + off>>]

\* vertices stacked, faces re-indexed by the vertex count stacked so far
RECURSIVE Stack(_, _)
Stack(ms, acc) ==
    IF ms = <<>> THEN acc
    ELSE Stack(Tail(ms),
               Mesh(acc.vertices \o Head(ms).vertices,
                    acc.faces \o OffsetFaces(Head(ms).faces, Len(acc.vertices)),
                    acc.vcolors \o Head(ms).vcolors))

Result(kind, mesh, list) == [kind |-> kind, mesh |-> mesh, list |-> list]
NoResult == Result("none", EmptyMesh, <<>>)

\* trimesh.util.concatenate(meshes): the set of values the call can return.
\* One mesh is returned as a copy, several as one stacked mesh.  For no mesh
\* at all the library returns a plain empty list in some releases and an
\* empty mesh in others.
concatenate(ms) ==
    IF ms = <<>>
    THEN {Result("list", EmptyMesh, <<>>), Result("mesh", EmptyMesh, <<>>)}
    ELSE {Result("mesh", Stack(ms, EmptyMesh), <<>>)}

\* --------------------------------------------------------------------- state
VARIABLES
    caller,       \* "export_from_json", or "direct" for a bare export_bricks_to_mesh call
    operations,   \* data['operations'].items(): <<[key, bricks]>> in mapping order
    only_final,   \* export_from_json argument
    with_colors,  \* export_from_json argument
    pc,           \* position in the code
    i,            \* 1-based position in operations of the step at hand
    j,            \* 1-based position in the step's 'bricks' of the entry at hand
    bricks,       \* the list 'bricks'
    colors,       \* the list 'colors'
    visited,      \* keys of the steps whose bricks were collected, in order
    colors_arg,   \* export_bricks_to_mesh: argument 'colors' (None is <<>>)
    merge,        \* export_bricks_to_mesh: argument 'merge'
    k,            \* export_bricks_to_mesh: 1-based position of the brick at hand
    meshes,       \* export_bricks_to_mesh: the list 'meshes'
    result,       \* what export_bricks_to_mesh returned
    files,        \* files written by export_to_file, in order
    error,        \* the exception that ended the run, or NoError
    args,         \* main / create_custom_assembly: the arguments
    mode,         \* main: the input mode whose branch was entered
    output_path,  \* export_from_json: output_path; main: args.output once normalized
    output_format, \* main: output_format
    w,            \* main: 0-based index of the mesh at hand in the loop of line 385
    first,        \* outcome of an earlier run on the same input, or NoRun
    seed,         \* the seed of the process's random generator, NoSeed before its first draw
    handed        \* the (brick, color) pairs handed to export_brick_to_mesh, in order

vars == <<caller, operations, only_final, with_colors, pc, i, j, bricks, colors,
          visited, colors_arg, merge, k, meshes, result, files, error,
          args, mode, output_path, output_format, w, first, seed, handed>>

\* the variables only main and create_custom_assembly write
mainVars == <<args, mode, output_path, output_format, w, first, seed>>

OutputPath == <<"a", ".", "o", "b", "j">>

NoArgs == [given |-> FALSE]
NoRun == [ran |-> FALSE]
NoSeed == -1

\* key sequences of n distinct keys, in the order of the file
KeySeqs(n) == {ks \in [1..n -> Keys] : \A a, b \in 1..n : a # b => ks[a] # ks[b]}

\* the 'bricks' lists used in mappings of several steps
StepPool == {<<>>,
             <<Prim("3001", <<20, 0, 0>>, IdQ, Red)>>,
             <<Comp(<<10, 0, 0>>, IdQ, Red, <<LeafA, LeafB>>)>>,
             <<Prim("3002", Origin, Z180, None),
               Comp(<<10, 0, 0>>, Z180, None, <<InnerComp, LeafB>>)>>}

\* mappings of up to MaxSteps steps over StepPool, under any distinct keys
ManySteps(ops) ==
    \E n \in 0..MaxSteps : \E ks \in KeySeqs(n) : \E ss \in [1..n -> StepPool] :
        ops = [m \in 1..n |-> [key |-> ks[m], bricks |-> ss[m]]]

\* mappings of one step "0" of up to MaxEntries entries over EntryPool
OneStep(ops) ==
    \E n \in 0..MaxEntries : \E es \in [1..n -> EntryPool] :
        ops = <<[key |-> "0", bricks |-> es]>>

Init ==
    /\ caller = "export_from_json"
    /\ ManySteps(operations) \/ OneStep(operations)
    /\ only_final \in BOOLEAN
    /\ with_colors \in BOOLEAN
    /\ pc = "loop"
    /\ i = 1
    /\ j = 0
    /\ bricks = <<>>
    /\ colors = <<>>
    /\ visited = <<>>
    /\ colors_arg = None
    /\ merge = TRUE
    /\ k = 0
    /\ meshes = <<>>
    /\ result = NoResult
    /\ files = <<>>
    /\ error = NoError
    /\ args = NoArgs
    /\ mode = "none"
    /\ output_path = OutputPath
    /\ output_format = None
    /\ w = 0
    /\ first = NoRun
    /\ seed = NoSeed
    /\ handed = <<>>

\* ---------------------------------------------------------- export_from_json
NumOps == Len(operations)
CurKey == operations[i].key
b_step == operations[i].bricks

\* line 178: only_final and int(i_str) != len(data['operations']) - 1
SkipStep(key) == only_final /\ IntOf(key) # NumOps - 1

Fail(kind, index) ==
    /\ pc' = "failed"
    /\ error' = Err(kind, index)

\* int(i_str) of a key that is no integer literal (evaluated only when
\* only_final is set: 'and' short-circuits)
StepValueError ==
    /\ pc = "loop" /\ i <= NumOps
    /\ only_final /\ ~IsIntKey(CurKey)
    /\ Fail("ValueError", -1)
    /\ UNCHANGED mainVars
    /\ UNCHANGED <<caller, operations, only_final, with_colors, i, j, bricks,
                   colors, visited, colors_arg, merge, k, meshes, result, files>>
    /\ UNCHANGED handed

\* line 179: continue
StepSkip ==
    /\ pc = "loop" /\ i <= NumOps
    /\ only_final => IsIntKey(CurKey)
    /\ SkipStep(CurKey)
    /\ i' = i + 1
    /\ UNCHANGED mainVars
    /\ UNCHANGED <<caller, operations, only_final, with_colors, pc, j, bricks,
                   colors, visited, colors_arg, merge, k, meshes, result, files,
                   error>>
    /\ UNCHANGED handed

\* line 181: b_step = op['bricks']
StepEnter ==
    /\ pc = "loop" /\ i <= NumOps
    /\ only_final => IsIntKey(CurKey)
    /\ ~SkipStep(CurKey)
    /\ visited' = Append(visited, CurKey)
    /\ pc' = "entry"
    /\ j' = 1
    /\ UNCHANGED mainVars
    /\ UNCHANGED <<caller, operations, only_final, with_colors, i, bricks, colors,
                   colors_arg, merge, k, meshes, result, files, error>>
    /\ UNCHANGED handed

\* lines 191, 201 with the with_colors test dropped
EntryColorIgnoringFlag(e) == e.color

\* lines 191-194 and 202-205: the color appended for a brick of entry e
EntryColor(e) == IF with_colors /\ e.color # None THEN e.color ELSE None

\* lines 183-184 on an entry without 'brick_transform'
EntryKeyError ==
    /\ pc = "entry" /\ j <= Len(b_step)
    /\ ~b_step[j].has_transform
    /\ Fail("KeyError", -1)
    /\ UNCHANGED mainVars
    /\ UNCHANGED <<caller, operations, only_final, with_colors, i, j, bricks,
                   colors, visited, colors_arg, merge, k, meshes, result, files>>
    /\ UNCHANGED handed

\* lines 186-194
EntryPrimitive ==
    /\ pc = "entry" /\ j <= Len(b_step)
    /\ b_step[j].has_transform
    /\ b_step[j].brick_type # Absent
    /\ bricks' = Append(bricks, Brick(b_step[j].brick_type, b_step[j].position,
                                      b_step[j].rotation))
    /\ colors' = Append(colors, EntryColor(b_step[j]))
    /\ j' = j + 1
    /\ UNCHANGED mainVars
    /\ UNCHANGED <<caller, operations, only_final, with_colors, pc, i, visited,
                   colors_arg, merge, k, meshes, result, files, error>>
    /\ UNCHANGED handed

\* lines 200-201 appending the first sub-brick only
AppendSubBricksFirstOnly(bs, subs) ==
    IF subs = <<>> THEN bs ELSE Append(bs, Head(subs))

\* lines 200-201: bricks.append(sub_brick) for each sub_brick of cbrick.bricks
AppendSubBricks(bs, subs) == bs \o subs

\* lines 200-205: the colors appended for the sub-bricks of entry e
SubBrickColors(e, subs) == [n \in 1..Len(subs) |-> EntryColor(e)]

\* lines 195-205
EntryComposite ==
    /\ pc = "entry" /\ j <= Len(b_step)
    /\ b_step[j].has_transform
    /\ b_step[j].brick_type = Absent
    /\ LET cbrick == dict_to_cbrick(b_step[j], FALSE)
       IN  /\ cbrick.ok
           /\ bricks' = AppendSubBricks(bricks, cbrick.bricks)
           /\ colors' = colors \o SubBrickColors(b_step[j], cbrick.bricks)
    /\ j' = j + 1
    /\ UNCHANGED mainVars
    /\ UNCHANGED <<caller, operations, only_final, with_colors, pc, i, visited,
                   colors_arg, merge, k, meshes, result, files, error>>
    /\ UNCHANGED handed

\* line 198 raising
EntryCompositeError ==
    /\ pc = "entry" /\ j <= Len(b_step)
    /\ b_step[j].has_transform
    /\ b_step[j].brick_type = Absent
    /\ LET cbrick == dict_to_cbrick(b_step[j], FALSE)
       IN  /\ ~cbrick.ok
           /\ Fail(cbrick.error.kind, cbrick.error.index)
    /\ UNCHANGED mainVars
    /\ UNCHANGED <<caller, operations, only_final, with_colors, i, j, bricks,
                   colors, visited, colors_arg, merge, k, meshes, result, files>>
    /\ UNCHANGED handed

\* the inner loop is exhausted: next operation
StepDone ==
    /\ pc = "entry" /\ j > Len(b_step)
    /\ pc' = "loop"
    /\ i' = i + 1
    /\ j' = 0
    /\ UNCHANGED mainVars
    /\ UNCHANGED <<caller, operations, only_final, with_colors, bricks, colors,
                   visited, colors_arg, merge, k, meshes, result, files, error>>
    /\ UNCHANGED handed

\* line 210: export_bricks_to_mesh(bricks, colors if with_colors else None, merge=True)
CallExportBricks ==
    /\ pc = "loop" /\ i > NumOps
    /\ pc' = "mesh"
    /\ colors_arg' = IF with_colors THEN colors ELSE None
    /\ merge' = TRUE
    /\ k' = 1
    /\ meshes' = <<>>
    /\ UNCHANGED mainVars
    /\ UNCHANGED <<caller, operations, only_final, with_colors, i, j, bricks,
                   colors, visited, result, files, error>>
    /\ UNCHANGED handed

\* ----------------------------------------------------- export_bricks_to_mesh
\* line 82: colors[i] if colors and i < len(colors) else None
BrickColor(cs, n) == IF cs # <<>> /\ n <= Len(cs) THEN cs[n] ELSE None

\* lines 83-84 with a failing brick left out instead of raising
MeshStepSkipFailed(ms, brick, color) ==
    LET r == export_brick_to_mesh(brick, color)
    IN  [ok |-> TRUE, meshes |-> IF r.ok THEN Append(ms, r.mesh) ELSE ms]

\* lines 83-84 with the list replaced instead of appended to
MeshStepOverwrite(ms, brick, color) ==
    LET r == export_brick_to_mesh(brick, color)
    IN  [ok |-> r.ok, meshes |-> IF r.ok THEN <<r.mesh>> ELSE ms]

\* lines 83-84: mesh = export_brick_to_mesh(brick, color); meshes.append(mesh)
MeshStep(ms, brick, color) ==
    LET r == export_brick_to_mesh(brick, color)
    IN  [ok |-> r.ok, meshes |-> IF r.ok THEN Append(ms, r.mesh) ELSE ms]

\* lines 81-84, one iteration
MeshBrick ==
    /\ pc = "mesh" /\ k <= Len(bricks)
    /\ LET s == MeshStep(meshes, bricks[k], BrickColor(colors_arg, k))
       IN  /\ s.ok
           /\ meshes' = s.meshes
    /\ handed' = Append(handed, <<bricks[k], BrickColor(colors_arg, k)>>)
    /\ k' = k + 1
    /\ UNCHANGED mainVars
    /\ UNCHANGED <<caller, operations, only_final, with_colors, pc, i, j, bricks,
                   colors, visited, colors_arg, merge, result, files, error>>

\* line 83 raising
MeshBrickError ==
    /\ pc = "mesh" /\ k <= Len(bricks)
    /\ ~MeshStep(meshes, bricks[k], BrickColor(colors_arg, k)).ok
    /\ handed' = Append(handed, <<bricks[k], BrickColor(colors_arg, k)>>)
    /\ Fail("UnknownBrickTypeError", -1)
    /\ UNCHANGED mainVars
    /\ UNCHANGED <<caller, operations, only_final, with_colors, i, j, bricks,
                   colors, visited, colors_arg, merge, k, meshes, result, files>>

\* lines 86-91: what the function returns for the list 'meshes'
Returned(ms, mrg) == IF mrg THEN concatenate(ms) ELSE {Result("list", EmptyMesh, ms)}

MeshReturn ==
    /\ pc = "mesh" /\ k > Len(bricks)
    /\ result' \in Returned(meshes, merge)
    /\ pc' = CASE caller = "export_from_json" -> "write"
              [] caller = "main" -> "export"
              [] OTHER -> "returned"
    /\ UNCHANGED mainVars
    /\ UNCHANGED <<caller, operations, only_final, with_colors, i, j, bricks,
                   colors, visited, colors_arg, merge, k, meshes, files, error>>
    /\ UNCHANGED handed

\* ------------------------------------------------------------ export_to_file
\* lines 129-130: the format written when 'format' is None or given
FormatUsed(path, format) == IF format = None THEN SuffixFormat(path) ELSE format

\* lines 136-146: the file_type handed to mesh.export; None when the call
\* names no file_type and leaves the format to the library
FileType(format) ==
    IF format \in {FmtObj, FmtPly, FmtStl} THEN format
    ELSE IF format \in {FmtGlb, FmtGltf} THEN FmtGlb
    ELSE None

\* s without its trailing slashes
RECURSIVE RStripSlash(_)
RStripSlash(s) ==
    IF s # <<>> /\ s[Len(s)] = "/" THEN RStripSlash(SubSeq(s, 1, Len(s) - 1)) ELSE s

\* os.path.dirname(p)
dirname(p) ==
    LET head == SubSeq(p, 1, LastIndex(p, "/"))
    IN  IF RStripSlash(head) = <<>> THEN head ELSE RStripSlash(head)

\* line 133: the directory os.makedirs is called on
MadeDir(path) == IF dirname(path) # <<>> THEN dirname(path) ELSE <<".">>

\* lines 129-151 called on a mesh object: mesh.export(path, file_type=...)
\* after os.makedirs(dir); 'format' is the local printed at line 151
Written(mesh, path, format) ==
    [path |-> path, dir |-> MadeDir(path), format |-> FormatUsed(path, format),
     file_type |-> FileType(FormatUsed(path, format)), mesh |-> mesh]

\* line 208: export_to_file(mesh, output_path)
ExportToFile ==
    /\ pc = "write" /\ result.kind = "mesh"
    /\ files' = Append(files, Written(result.mesh, output_path, None))
    /\ pc' = "done"
    /\ UNCHANGED mainVars
    /\ UNCHANGED <<caller, operations, only_final, with_colors, i, j, bricks,
                   colors, visited, colors_arg, merge, k, meshes, result, error>>
    /\ UNCHANGED handed

\* lines 136-146 called on a plain list: a list has no export method
ExportToFileError ==
    /\ pc = "write" /\ result.kind = "list"
    /\ Fail("AttributeError", -1)
    /\ UNCHANGED mainVars
    /\ UNCHANGED <<caller, operations, only_final, with_colors, i, j, bricks,
                   colors, visited, colors_arg, merge, k, meshes, result, files>>
    /\ UNCHANGED handed

Next ==
    \/ StepValueError
    \/ StepSkip
    \/ StepEnter
    \/ EntryKeyError
    \/ EntryPrimitive
    \/ EntryComposite
    \/ EntryCompositeError
    \/ StepDone
    \/ CallExportBricks
    \/ MeshBrick
    \/ MeshBrickError
    \/ MeshReturn
    \/ ExportToFile
    \/ ExportToFileError

Spec == Init /\ [][Next]_vars

\* ------------------------------------- export_bricks_to_mesh called directly
\* (as main does for --brick_types, with merge = not --separate)
BrickPool == {Brick("3001", Origin, IdQ),
              Brick("3002", <<20, 0, 0>>, IdQ),
              Brick("3001", <<10, 0, 8>>, Z180),
              Brick("9999", Origin, IdQ)}
ColorPool == {None, Red}

\* the colors list may be None (<<>>) or shorter than the bricks list
InitMesh ==
    /\ caller = "direct"
    /\ operations = <<>>
    /\ only_final = FALSE
    /\ with_colors = FALSE
    /\ pc = "mesh"
    /\ i = 1
    /\ j = 0
    /\ \E n \in 0..MaxBricks :
          /\ bricks \in [1..n -> BrickPool]
          /\ \E m \in 0..n : colors_arg \in [1..m -> ColorPool]
    /\ colors = <<>>
    /\ visited = <<>>
    /\ merge \in BOOLEAN
    /\ k = 1
    /\ meshes = <<>>
    /\ result = NoResult
    /\ files = <<>>
    /\ error = NoError
    /\ args = NoArgs
    /\ mode = "none"
    /\ output_path = OutputPath
    /\ output_format = None
    /\ w = 0
    /\ first = NoRun
    /\ seed = NoSeed
    /\ handed = <<>>

NextMesh ==
    \/ MeshBrick
    \/ MeshBrickError
    \/ MeshReturn

SpecMesh == InitMesh /\ [][NextMesh]_vars

\* ---------------------------------------------------------------------- main
MaxArgs == 3        \* values of one nargs='+' option / items of one list argument

MaxSeed == 2        \* seeds 0..MaxSeed of the random generator

\* random.randint(100, 255), line 356
RandLo == 100
RandHi == 255

\* The generator of an unseeded process starts from a seed taken from the
\* operating system.  RandStream[s + 1] is what successive calls of
\* random.randint(RandLo, RandHi) return in a process whose seed is s.
RandStream ==
    <<<<198, 207, 110, 166, 230, 224, 203, 177, 222, 191, 249, 155, 229, 135, 172>>,
      <<134, 245, 116, 165, 130, 226, 215, 220, 197, 153, 124, 224, 107, 199, 210>>,
      <<114, 123, 121, 192, 143, 178, 164, 255, 154, 255, 109, 248, 140, 210, 200>>,
      <<160, 251, 239, 133, 194, 254, 221, 248, 116, 255, 103, 220, 166, 241, 159>>,
      <<160, 177, 126, 201, 222, 139, 123, 117, 105, 202, 240, 174, 115, 156, 233>>>>

\* the n-th draw (1-based) of a process seeded with s
randint(s, n) == RandStream[s + 1][n]

Seeds == 0..MaxSeed

\* line 356: the color made of the three draws that follow 'drawn' draws
RandomColor(s, drawn) ==
    <<randint(s, drawn + 1), randint(s, drawn + 2), randint(s, drawn + 3)>>

\* an optional value: None, or the value in a one-element sequence
Some(v) == <<v>>

DigitVal(c) == CASE c = "0" -> 0 [] c = "1" -> 1 [] c = "2" -> 2 [] c = "3" -> 3
                 [] c = "4" -> 4 [] c = "5" -> 5 [] c = "6" -> 6 [] c = "7" -> 7
                 [] c = "8" -> 8 [] c = "9" -> 9
DigitChar(d) == CASE d = 0 -> "0" [] d = 1 -> "1" [] d = 2 -> "2" [] d = 3 -> "3"
                  [] d = 4 -> "4" [] d = 5 -> "5" [] d = 6 -> "6" [] d = 7 -> "7"
                  [] d = 8 -> "8" [] d = 9 -> "9"

\* float(s) of an unsigned decimal integer literal
RECURSIVE float(_)
float(s) ==
    IF Len(s) = 1 THEN DigitVal(s[1])
    ELSE 10 * float(SubSeq(s, 1, Len(s) - 1)) + DigitVal(s[Len(s)])

\* str.split(c)
RECURSIVE split(_, _)
split(s, c) ==
    IF \E n \in 1..Len(s) : s[n] = c
    THEN LET n == CHOOSE n \in 1..Len(s) : s[n] = c /\ \A m \in 1..(n - 1) : s[m] # c
         IN  <<SubSeq(s, 1, n - 1)>> \o split(SubSeq(s, n + 1, Len(s)), c)
    ELSE <<s>>

\* lines 341, 345: tuple(map(float, s.split(',')))
ParseTuple(s) ==
    LET parts == split(s, ",") IN [n \in 1..Len(parts) |-> float(parts[n])]

\* str(i) and the f-string field {i:03d}
RECURSIVE Decimal(_)
Decimal(n) ==
    IF n < 10 THEN <<DigitChar(n)>> ELSE Append(Decimal(n \div 10), DigitChar(n % 10))
RECURSIVE ZeroPad(_, _)
ZeroPad(s, width) == IF Len(s) >= width THEN s ELSE ZeroPad(<<"0">> \o s, width)
Pad03d(n) == ZeroPad(Decimal(n), 3)

\* line 386 with the index left out of the name
SeparateNameNoIndex(path, n) == splitext(path).root \o <<"_">> \o splitext(path).ext

\* lines 382-386: f"{base_name}_{i:03d}{ext}"
SeparateName(path, n) ==
    splitext(path).root \o <<"_">> \o Pad03d(n) \o splitext(path).ext

\* line 313: args.format or format_ext or 'obj'
OutputFormat(output, format) ==
    IF format # None THEN format
    ELSE IF SuffixFormat(output) # <<>> THEN SuffixFormat(output)
    ELSE FmtObj

\* lines 316-317
NormalizedOutput(output, format) ==
    IF EndsWith(output, <<".">> \o format) THEN output ELSE output \o <<".">> \o format

\* the n-th value of --brick_types, --positions ("<n>0,0,0")
TypeArg(n) == IF n % 2 = 1 THEN "3001" ELSE "3002"
PositionArg(n) == <<DigitChar(n), "0", ",", "0", ",", "0">>
\* values of --rotations: half turns about z and about x
RotationArgs == {<<"0", ",", "0", ",", "0", ",", "1">>,
                 <<"0", ",", "1", ",", "0", ",", "0">>}

MainArgs(bt, bts, ps, rs, js, bp, out, fmt, sep, wc, fin) ==
    [given |-> TRUE, brick_type |-> bt, brick_types |-> bts, positions |-> ps,
     rotations |-> rs, json_path |-> js, bricks_pc_path |-> bp, output |-> out,
     format |-> fmt, separate |-> sep, with_colors |-> wc, only_final |-> fin]

\* what --json_path holds: data['operations'] of the file
JsonPool == {<<>>,
             <<[key |-> "0", bricks |-> <<Prim("3001", <<20, 0, 0>>, IdQ, Red)>>]>>,
             <<[key |-> "0", bricks |-> <<Prim("3002", Origin, Z180, None)>>],
               [key |-> "1", bricks |-> <<Comp(<<10, 0, 0>>, IdQ, Red, <<LeafA, LeafB>>)>>]>>,
             <<[key |-> "x", bricks |->
                   <<Entry(Absent, TRUE, Origin, IdQ, Red, FALSE, <<>>)>>]>>,
             <<[key |-> "0", bricks |->
                   <<Entry(Absent, FALSE, Origin, IdQ, None, FALSE, <<>>)>>]>>}

\* what --bricks_pc_path holds: get_elements(load_bricks_pc(path).bricks)
BricksPcPool == {<<>>,
                 <<Brick("3001", Origin, IdQ), Brick("3002", <<20, 0, 0>>, Z180)>>,
                 <<Brick("3001", Origin, IdQ), Brick("9999", Origin, IdQ)>>}

TwoTypes == <<TypeArg(1), TypeArg(2)>>
OnePosition == <<PositionArg(1)>>
TwoPositions == <<PositionArg(1), PositionArg(2)>>
PlainOutput == <<"m", ".", "o", "b", "j">>

\* every combination of the four input options
ModeArgs(a) ==
    \E bt \in {Absent, "3001", "9999"} :
    \E tp \in {<<None, None>>, <<TwoTypes, None>>, <<TwoTypes, TwoPositions>>,
               <<None, OnePosition>>} :
    \E js \in {None} \cup {Some(d) : d \in JsonPool} :
    \E bp \in {None} \cup {Some(b) : b \in BricksPcPool} :
    \E sep, wc, fin \in BOOLEAN :
        a = MainArgs(bt, tp[1], tp[2], None, js, bp, PlainOutput, None, sep, wc, fin)

\* every combination of --output and --format, under each input mode
PathArgs(a) ==
    \E out \in PathPool : \E fmt \in {None} \cup FormatChoices : \E sep \in BOOLEAN :
    \E m \in 1..4 :
        a = MainArgs(IF m = 1 THEN "3001" ELSE Absent,
                     IF m = 2 THEN TwoTypes ELSE None,
                     IF m = 2 THEN TwoPositions ELSE None,
                     None,
                     IF m = 3 THEN Some(<<[key |-> "0", bricks |->
                                 <<Prim("3001", <<20, 0, 0>>, IdQ, Red)>>]>>) ELSE None,
                     IF m = 4 THEN Some(<<Brick("3001", Origin, IdQ),
                                          Brick("3002", <<20, 0, 0>>, Z180)>>) ELSE None,
                     out, fmt, sep, FALSE, FALSE)

\* custom assemblies: up to MaxArgs types, positions and rotations
CustomArgs(a) ==
    \E nt, np \in 1..MaxArgs : \E nr \in 0..MaxArgs : \E rs \in [1..nr -> RotationArgs] :
    \E sep, wc \in BOOLEAN :
        a = MainArgs(Absent, [n \in 1..nt |-> TypeArg(n)],
                     [n \in 1..np |-> PositionArg(n)], rs, None, None,
                     PlainOutput, None, sep, wc, FALSE)

InitMain ==
    /\ ModeArgs(args) \/ PathArgs(args) \/ CustomArgs(args)
    /\ caller = "main"
    /\ operations = <<>>
    /\ only_final = FALSE
    /\ with_colors = FALSE
    /\ pc = "main"
    /\ i = 1
    /\ j = 0
    /\ bricks = <<>>
    /\ colors = <<>>
    /\ visited = <<>>
    /\ colors_arg = None
    /\ merge = TRUE
    /\ k = 0
    /\ meshes = <<>>
    /\ result = NoResult
    /\ files = <<>>
    /\ error = NoError
    /\ mode = "none"
    /\ output_path = None
    /\ output_format = None
    /\ w = 0
    /\ first = NoRun
    /\ seed = NoSeed
    /\ handed = <<>>

\* lines 311-317: output_format and the normalized args.output
MainNormalize ==
    /\ pc = "main"
    /\ output_format' = OutputFormat(args.output, args.format)
    /\ output_path' = NormalizedOutput(args.output, OutputFormat(args.output, args.format))
    /\ pc' = "dispatch"
    /\ UNCHANGED <<args, mode, w, first, seed>>
    /\ UNCHANGED <<caller, operations, only_final, with_colors, i, j, bricks,
                   colors, visited, colors_arg, merge, k, meshes, result, files, error>>
    /\ UNCHANGED handed

\* line 322 with the order of the first two tests exchanged
InputModeTypesFirst(a) ==
    IF a.brick_types # None THEN "brick_types"
    ELSE IF a.brick_type # Absent THEN "brick_type"
    ELSE IF a.json_path # None THEN "json_path"
    ELSE IF a.bricks_pc_path # None THEN "bricks_pc_path"
    ELSE "none"

\* lines 322, 327, 363, 368, 376: the branch of the if/elif chain that is taken
InputMode(a) ==
    IF a.brick_type # Absent THEN "brick_type"
    ELSE IF a.brick_types # None THEN "brick_types"
    ELSE IF a.json_path # None THEN "json_path"
    ELSE IF a.bricks_pc_path # None THEN "bricks_pc_path"
    ELSE "none"

\* line 325: the color of the single brick
SingleColor(a) == IF a.with_colors THEN Red ELSE None

\* lines 322-325
MainBrickType ==
    /\ pc = "dispatch" /\ InputMode(args) = "brick_type"
    /\ mode' = "brick_type"
    /\ LET r == export_brick_to_mesh(Brick(args.brick_type, Origin, IdQ),
                                     SingleColor(args))
       IN  /\ r.ok
           /\ result' = Result("mesh", r.mesh, <<>>)
    /\ handed' = Append(handed, <<Brick(args.brick_type, Origin, IdQ), SingleColor(args)>>)
    /\ pc' = "export"
    /\ UNCHANGED <<args, output_path, output_format, w, first, seed>>
    /\ UNCHANGED <<caller, operations, only_final, with_colors, i, j, bricks,
                   colors, visited, colors_arg, merge, k, meshes, files, error>>

\* line 325 raising
MainBrickTypeError ==
    /\ pc = "dispatch" /\ InputMode(args) = "brick_type"
    /\ mode' = "brick_type"
    /\ ~export_brick_to_mesh(Brick(args.brick_type, Origin, IdQ), SingleColor(args)).ok
    /\ handed' = Append(handed, <<Brick(args.brick_type, Origin, IdQ), SingleColor(args)>>)
    /\ Fail("UnknownBrickTypeError", -1)
    /\ UNCHANGED <<args, output_path, output_format, w, first, seed>>
    /\ UNCHANGED <<caller, operations, only_final, with_colors, i, j, bricks,
                   colors, visited, colors_arg, merge, k, meshes, result, files>>

\* sys.exit(1)
Exit1 ==
    /\ pc' = "exit"
    /\ error' = Err("SystemExit", 1)

\* lines 327-331: --brick_types without --positions
MainNoPositions ==
    /\ pc = "dispatch" /\ InputMode(args) = "brick_types"
    /\ args.positions = None
    /\ mode' = "brick_types"
    /\ Exit1
    /\ UNCHANGED <<args, output_path, output_format, w, first, seed>>
    /\ UNCHANGED <<caller, operations, only_final, with_colors, i, j, bricks,
                   colors, visited, colors_arg, merge, k, meshes, result, files>>
    /\ UNCHANGED handed

\* lines 327-334
MainBrickTypes ==
    /\ pc = "dispatch" /\ InputMode(args) = "brick_types"
    /\ args.positions # None
    /\ mode' = "brick_types"
    /\ bricks' = <<>>
    /\ colors' = <<>>
    /\ i' = 1
    /\ pc' = "custom"
    /\ UNCHANGED <<args, output_path, output_format, w, first, seed>>
    /\ UNCHANGED <<caller, operations, only_final, with_colors, j,
                   visited, colors_arg, merge, k, meshes, result, files, error>>
    /\ UNCHANGED handed

\* line 344 with the default taken whenever the lists differ in length
CustomRotationAllOrNone(a, n) ==
    IF Len(a.rotations) = Len(a.brick_types) THEN ParseTuple(a.rotations[n]) ELSE IdQ

\* lines 344-348: the orientation of the n-th brick (1-based)
CustomRotation(a, n) ==
    IF a.rotations # None /\ n <= Len(a.rotations)
    THEN ParseTuple(a.rotations[n])
    ELSE IdQ

\* lines 336-356, one iteration that builds a brick
CustomBrick ==
    /\ pc = "custom" /\ i <= Len(args.brick_types)
    /\ i <= Len(args.positions)
    /\ bricks' = Append(bricks, Brick(args.brick_types[i], ParseTuple(args.positions[i]),
                                      CustomRotation(args, i)))
    /\ IF args.with_colors
       THEN /\ IF seed = NoSeed THEN seed' \in Seeds ELSE seed' = seed
            /\ colors' = Append(colors, RandomColor(seed', 3 * Len(colors)))
       ELSE /\ colors' = colors
            /\ seed' = seed
    /\ i' = i + 1
    /\ UNCHANGED <<args, mode, output_path, output_format, w, first>>
    /\ UNCHANGED <<caller, operations, only_final, with_colors, pc, j,
                   visited, colors_arg, merge, k, meshes, result, files, error>>
    /\ UNCHANGED handed

\* lines 337-339 (break at the first missing position) or the end of the loop,
\* then lines 358-361: export_bricks_to_mesh(bricks, colors or None, merge)
CustomCall ==
    /\ pc = "custom"
    /\ i > Len(args.brick_types) \/ i > Len(args.positions)
    /\ colors_arg' = IF args.with_colors THEN colors ELSE None
    /\ merge' = ~args.separate
    /\ k' = 1
    /\ meshes' = <<>>
    /\ pc' = "mesh"
    /\ UNCHANGED mainVars
    /\ UNCHANGED <<caller, operations, only_final, with_colors, i, j, bricks,
                   colors, visited, result, files, error>>
    /\ UNCHANGED handed

\* lines 363-365: export_from_json(args.json_path, args.output, args.only_final,
\* args.with_colors)
MainJson ==
    /\ pc = "dispatch" /\ InputMode(args) = "json_path"
    /\ mode' = "json_path"
    /\ caller' = "export_from_json"
    /\ operations' = args.json_path[1]
    /\ only_final' = args.only_final
    /\ with_colors' = args.with_colors
    /\ i' = 1
    /\ pc' = "loop"
    /\ UNCHANGED <<args, output_path, output_format, w, first, seed>>
    /\ UNCHANGED <<j, bricks, colors, visited, colors_arg, merge, k, meshes,
                   result, files, error>>
    /\ UNCHANGED handed

\* lines 368-374: export_bricks_pc_to_mesh(bricks_pc, merge=not args.separate)
MainBricksPc ==
    /\ pc = "dispatch" /\ InputMode(args) = "bricks_pc_path"
    /\ mode' = "bricks_pc_path"
    /\ bricks' = args.bricks_pc_path[1]
    /\ colors_arg' = None
    /\ merge' = ~args.separate
    /\ k' = 1
    /\ meshes' = <<>>
    /\ pc' = "mesh"
    /\ UNCHANGED <<args, output_path, output_format, w, first, seed>>
    /\ UNCHANGED <<caller, operations, only_final, with_colors, i, j,
                   colors, visited, result, files, error>>
    /\ UNCHANGED handed

\* lines 376-378: no input option
MainNoInput ==
    /\ pc = "dispatch" /\ InputMode(args) = "none"
    /\ Exit1
    /\ UNCHANGED mainVars
    /\ UNCHANGED <<caller, operations, only_final, with_colors, i, j, bricks,
                   colors, visited, colors_arg, merge, k, meshes, result, files>>
    /\ UNCHANGED handed

\* lines 359, 371: the result was assigned to 'meshes' rather than to 'mesh'
MeshesSet == mode \in {"brick_types", "bricks_pc_path"} /\ args.separate

\* lines 381-387, one iteration
MainExportSeparate ==
    /\ pc = "export" /\ MeshesSet
    /\ w < Len(result.list)
    /\ files' = Append(files, Written(result.list[w + 1],
                                      SeparateName(output_path, w), output_format))
    /\ w' = w + 1
    /\ UNCHANGED <<args, mode, output_path, output_format, first, seed>>
    /\ UNCHANGED <<caller, operations, only_final, with_colors, pc, i, j, bricks,
                   colors, visited, colors_arg, merge, k, meshes, result, error>>
    /\ UNCHANGED handed

\* the loop of line 385 is over
MainExportSeparateDone ==
    /\ pc = "export" /\ MeshesSet
    /\ w >= Len(result.list)
    /\ pc' = "done"
    /\ UNCHANGED mainVars
    /\ UNCHANGED <<caller, operations, only_final, with_colors, i, j, bricks,
                   colors, visited, colors_arg, merge, k, meshes, result, files, error>>
    /\ UNCHANGED handed

\* lines 388-391: export_to_file(mesh, args.output, output_format)
MainExportMesh ==
    /\ pc = "export" /\ ~MeshesSet
    /\ result.kind = "mesh"
    /\ files' = Append(files, Written(result.mesh, output_path, output_format))
    /\ pc' = "done"
    /\ UNCHANGED mainVars
    /\ UNCHANGED <<caller, operations, only_final, with_colors, i, j, bricks,
                   colors, visited, colors_arg, merge, k, meshes, result, error>>
    /\ UNCHANGED handed

\* lines 388-391 when 'mesh' is the plain list concatenate gave for no mesh
MainExportMeshError ==
    /\ pc = "export" /\ ~MeshesSet
    /\ result.kind = "list"
    /\ Fail("AttributeError", -1)
    /\ UNCHANGED mainVars
    /\ UNCHANGED <<caller, operations, only_final, with_colors, i, j, bricks,
                   colors, visited, colors_arg, merge, k, meshes, result, files>>
    /\ UNCHANGED handed

NextMain ==
    \/ MainNormalize
    \/ MainBrickType
    \/ MainBrickTypeError
    \/ MainNoPositions
    \/ MainBrickTypes
    \/ CustomBrick
    \/ CustomCall
    \/ MainJson
    \/ MainBricksPc
    \/ MainNoInput
    \/ MainExportSeparate
    \/ MainExportSeparateDone
    \/ MainExportMesh
    \/ MainExportMeshError
    \/ Next

SpecMain == InitMain /\ [][NextMain]_vars

\* ------------------------------------------------- a second run of main
\* the run is over: written, failed, or exited
Terminal == pc \in {"done", "failed", "exit"}

\* main is started again, in a fresh process, on the arguments of the run
\* that just ended; the ended run's pairs are kept for comparison
Rerun ==
    /\ Terminal /\ ~first.ran
    /\ first' = [ran |-> TRUE, pairs |-> handed]
    /\ seed' = NoSeed
    /\ handed' = <<>>
    /\ caller' = "main"
    /\ operations' = <<>>
    /\ only_final' = FALSE
    /\ with_colors' = FALSE
    /\ pc' = "main"
    /\ i' = 1
    /\ j' = 0
    /\ bricks' = <<>>
    /\ colors' = <<>>
    /\ visited' = <<>>
    /\ colors_arg' = None
    /\ merge' = TRUE
    /\ k' = 0
    /\ meshes' = <<>>
    /\ result' = NoResult
    /\ files' = <<>>
    /\ error' = NoError
    /\ mode' = "none"
    /\ output_path' = None
    /\ output_format' = None
    /\ w' = 0
    /\ UNCHANGED args

NextRerun == NextMain \/ Rerun

SpecRerun == InitMain /\ [][NextRerun]_vars

\* ------------------------------ create_custom_assembly (interactive_bricks)
\* lines 92-93 alone: a list of another length is kept as it is
NormalizedRotationsNoneOnly(brick_types, rotations) ==
    IF rotations = None THEN [n \in 1..Len(brick_types) |-> IdQ] ELSE rotations[1]

\* lines 92-96: the list 'rotations' the loop is run with
NormalizedRotations(brick_types, rotations) ==
    LET given == IF rotations = None
                 THEN [n \in 1..Len(brick_types) |-> IdQ]
                 ELSE rotations[1]
    IN  IF Len(given) # Len(brick_types)
        THEN [n \in 1..Len(brick_types) |-> IdQ]
        ELSE given

\* line 99: zip stops with the shortest of its three lists
ZipLen(a) ==
    LET lens == {Len(a.brick_types), Len(a.positions),
                 Len(NormalizedRotations(a.brick_types, a.rotations))}
    IN  CHOOSE m \in lens : \A l \in lens : m <= l

\* rotations a caller may pass: half turns about z and about x
RotationPool == {Z180, <<0, 1, 0, 0>>}

\* brick_types, positions and rotations lists of up to MaxArgs items each;
\* rotations may also be None
InitAssembly ==
    /\ \E nt, np \in 0..MaxArgs :
       \E ts \in [1..nt -> KnownTypes] :
       \E rs \in {None} \cup {Some(r) : r \in UNION {[1..nr -> RotationPool] :
                                                       nr \in 0..MaxArgs}} :
           args = [given |-> TRUE, brick_types |-> ts,
                   positions |-> [n \in 1..np |-> <<10 * n, 0, 0>>],
                   rotations |-> rs]
    /\ caller = "create_custom_assembly"
    /\ operations = <<>>
    /\ only_final = FALSE
    /\ with_colors = FALSE
    /\ pc = "assembly"
    /\ i = 1
    /\ j = 0
    /\ bricks = <<>>
    /\ colors = <<>>
    /\ visited = <<>>
    /\ colors_arg = None
    /\ merge = TRUE
    /\ k = 0
    /\ meshes = <<>>
    /\ result = NoResult
    /\ files = <<>>
    /\ error = NoError
    /\ mode = "none"
    /\ output_path = None
    /\ output_format = None
    /\ w = 0
    /\ first = NoRun
    /\ seed = NoSeed
    /\ handed = <<>>

\* lines 99-101, one iteration
AssemblyBrick ==
    /\ pc = "assembly" /\ i <= ZipLen(args)
    /\ bricks' = Append(bricks,
                        Brick(args.brick_types[i], args.positions[i],
                              NormalizedRotations(args.brick_types, args.rotations)[i]))
    /\ i' = i + 1
    /\ UNCHANGED mainVars
    /\ UNCHANGED <<caller, operations, only_final, with_colors, pc, j,
                   colors, visited, colors_arg, merge, k, meshes, result, files, error>>
    /\ UNCHANGED handed

\* lines 103-104: the bricks built are handed to visualize_bricks
AssemblyRender ==
    /\ pc = "assembly" /\ i > ZipLen(args)
    /\ pc' = "rendered"
    /\ UNCHANGED mainVars
    /\ UNCHANGED <<caller, operations, only_final, with_colors, i, j, bricks,
                   colors, visited, colors_arg, merge, k, meshes, result, files, error>>
    /\ UNCHANGED handed

NextAssembly ==
    \/ AssemblyBrick
    \/ AssemblyRender

SpecAssembly == InitAssembly /\ [][NextAssembly]_vars

\* ==================================================================== claims
AllIntKeys == \A n \in 1..NumOps : IsIntKey(operations[n].key)
IsMaxKey(key) == \A n \in 1..NumOps : IntOf(operations[n].key) <= IntOf(key)
CollectionDone == pc \in {"mesh", "write", "done"}

\* C1: with only_final set and N >= 1 integer keys, exactly one step is
\* processed, the one whose key has the greatest numeric value, whatever the
\* key order and whether or not the keys are contiguous or start at 0.
C1_OnlyFinalProcessesMaxStep ==
    (caller = "export_from_json" /\ only_final /\ NumOps >= 1 /\ AllIntKeys
        /\ CollectionDone)
    => (Len(visited) = 1 /\ IsMaxKey(visited[1]))

\* the mesh built from the n-th brick of the call
PerBrickMesh(n) == export_brick_to_mesh(bricks[n], BrickColor(colors_arg, n)).mesh
VertsBefore(n) == SumSeq([m \in 1..(n - 1) |-> Len(PerBrickMesh(m).vertices)])
FacesBefore(n) == SumSeq([m \in 1..(n - 1) |-> Len(PerBrickMesh(m).faces)])

\* C2: the merged mesh returned for merge=True has as many vertices as the
\* per-brick meshes together and as many faces, every face index lies in
\* 0..(vertex count - 1), and the faces of the n-th brick are those of its own
\* mesh offset by the vertex count of the bricks before it.
C2_MergedMeshCounts ==
    (merge /\ result.kind = "mesh") =>
        LET M == result.mesh
        IN  /\ Len(M.vertices) = VertsBefore(Len(bricks) + 1)
            /\ Len(M.faces) = FacesBefore(Len(bricks) + 1)
            /\ \A f \in 1..Len(M.faces) : \A c \in 1..3 :
                  M.faces[f][c] \in 0..(Len(M.vertices) - 1)
            /\ \A n \in 1..Len(bricks) :
                  \A f \in 1..Len(PerBrickMesh(n).faces) : \A c \in 1..3 :
                     M.faces[FacesBefore(n) + f][c]
                        = PerBrickMesh(n).faces[f][c] + VertsBefore(n)

\* a merged mesh of three bricks, not all of one type, has been returned
C2_Witness ==
    /\ merge /\ result.kind = "mesh"
    /\ Len(bricks) = 3
    /\ bricks[1].brick_type # bricks[2].brick_type
    /\ Len(result.mesh.faces) >= 4

\* C3: for any list of M bricks, merge=False returns a list of exactly M
\* meshes, the n-th built from the n-th brick, and merge=True returns exactly
\* one mesh object.
C3_SeparateListOrOneMesh ==
    pc = "returned" =>
        /\ ~merge => /\ result.kind = "list"
                     /\ Len(result.list) = Len(bricks)
                     /\ \A n \in 1..Len(bricks) : result.list[n] = PerBrickMesh(n)
        /\ merge => result.kind = "mesh"

\* ----------------------------------------------------------------------------
\* the leaf brick types of an entry, depth first, children in input order
RECURSIVE LeafTypes(_)
LeafTypes(e) ==
    IF e.brick_type # Absent THEN <<e.brick_type>>
    ELSE Flatten([n \in 1..Len(e.children) |-> LeafTypes(e.children[n])])

StepBricksOf(key) ==
    operations[CHOOSE n \in 1..NumOps : operations[n].key = key].bricks

\* the entries whose collection is complete, in the order they were taken
EntriesCollected ==
    IF pc = "entry"
    THEN Flatten([n \in 1..(Len(visited) - 1) |-> StepBricksOf(visited[n])])
         \o SubSeq(b_step, 1, j - 1)
    ELSE Flatten([n \in 1..Len(visited) |-> StepBricksOf(visited[n])])

TypesOf(bs) == [n \in 1..Len(bs) |-> bs[n].brick_type]
LeafTypesOfAll(es) == Flatten([n \in 1..Len(es) |-> LeafTypes(es[n])])

Collecting == caller = "export_from_json" /\ pc \in {"loop", "entry", "mesh", "write", "done"}

\* C4: a composite entry with k leaf primitives (nested or not) contributes
\* exactly its k leaf bricks, depth first in input order, between the bricks
\* of the entries before and after it; one with no children contributes none.
C4_CompositeExpandsDepthFirst ==
    Collecting => TypesOf(bricks) = LeafTypesOfAll(EntriesCollected)

\* a nested composite has been expanded between two primitive entries
C4_Witness ==
    /\ caller = "export_from_json" /\ pc = "entry" /\ j = 4
    /\ Len(b_step) = 3
    /\ b_step[1].brick_type # Absent
    /\ b_step[2].brick_type = Absent
    /\ \E c \in 1..Len(b_step[2].children) : b_step[2].children[c].brick_type = Absent
    /\ b_step[3].brick_type # Absent
    /\ Len(bricks) = 4

\* the color the specification gives each leaf of an entry: the leaf's own
\* color, else that of the nearest enclosing composite that has one, else None
RECURSIVE EffectiveColors(_, _)
EffectiveColors(e, inherited) ==
    LET own == IF e.color # None THEN e.color ELSE inherited
    IN  IF e.brick_type # Absent THEN <<own>>
        ELSE Flatten([n \in 1..Len(e.children) |->
                         EffectiveColors(e.children[n], own)])

\* C5: with colors enabled every collected brick has its own explicit color
\* when its leaf gives one, otherwise the color of the nearest enclosing
\* composite that gives one, otherwise None.
C5_LeafColorOverridesInherited ==
    (Collecting /\ with_colors) =>
        colors = Flatten([n \in 1..Len(EntriesCollected) |->
                             EffectiveColors(EntriesCollected[n], None)])

\* an entry with no 'brick_type' that is no valid composite
Malformed(e) == e.brick_type = Absent /\ ~ValidComposite(e)

AtEntry ==
    /\ caller = "export_from_json" /\ pc \in {"entry", "failed"}
    /\ i <= NumOps /\ j >= 1

\* C6: a malformed entry ends the export with a composite-expansion error
\* that names the (0-based) index of the entry, no mesh is written, and the
\* entry is never skipped.
C6_MalformedEntryFailsWithItsIndex ==
    AtEntry =>
        /\ \A m \in 1..(j - 1) : ~Malformed(b_step[m])
        /\ (pc = "failed" /\ Malformed(b_step[j])) =>
              /\ error.kind = "CompositeExpansionError"
              /\ error.index = j - 1
              /\ files = <<>>

\* C7: a mapping with a step key that is no integer makes the export fail
\* and export nothing, with only_final set or not.
C7_NonIntegerKeyFails ==
    (caller = "export_from_json" /\ ~AllIntKeys) =>
        (pc \notin {"mesh", "write", "done"} /\ files = <<>>)

\* the keys in ascending numeric order
RECURSIVE SortKeys(_)
SortKeys(ks) ==
    IF ks = {} THEN <<>>
    ELSE LET lo == CHOOSE a \in ks : \A b \in ks : IntOf(a) <= IntOf(b)
         IN  <<lo>> \o SortKeys(ks \ {lo})

\* the bricks collected from a list of entries
RECURSIVE BricksOfEntries(_)
BricksOfEntries(es) ==
    IF es = <<>> THEN <<>>
    ELSE (IF Head(es).brick_type # Absent
          THEN <<Brick(Head(es).brick_type, Head(es).position, Head(es).rotation)>>
          ELSE dict_to_cbrick(Head(es), FALSE).bricks)
         \o BricksOfEntries(Tail(es))

\* C8 as stated: with only_final unset an N-step mapping (of non-empty steps)
\* gives N outputs, the n-th holding the bricks of the step with the n-th
\* smallest key alone.
C8_OneOutputPerStep ==
    (caller = "export_from_json" /\ ~only_final /\ NumOps >= 1 /\ AllIntKeys
        /\ (\A n \in 1..NumOps : operations[n].bricks # <<>>)
        /\ pc = "done")
    => /\ Len(files) = NumOps
       /\ \A n \in 1..NumOps :
             LET key == SortKeys({operations[m].key : m \in 1..NumOps})[n]
                 bs == BricksOfEntries(StepBricksOf(key))
             IN  Len(files[n].mesh.faces)
                    = SumSeq([m \in 1..Len(bs) |->
                                 Len(brick2mesh(bs[m], None).mesh.faces)])

\* C9: when the mesh of a brick cannot be built nothing is returned and no
\* file is written, and the loop never gets past the failing brick.
C9_BrickFailureAbortsExport ==
    \A n \in 1..Len(bricks) :
        ~export_brick_to_mesh(bricks[n], None).ok =>
            /\ result = NoResult
            /\ files = <<>>
            /\ Len(meshes) < n
            /\ pc \notin {"write", "done", "returned"}

\* the second brick of two failed after the first was built
C9_Witness ==
    /\ caller = "export_from_json" /\ pc = "failed"
    /\ error.kind = "UnknownBrickTypeError"
    /\ Len(bricks) = 2 /\ Len(meshes) = 1

\* C10: for zero bricks the merged export returns an empty mesh (no
\* vertices, no faces) and the export that follows completes without error.
C10_EmptyInputGivesEmptyMesh ==
    (caller = "export_from_json" /\ bricks = <<>> /\ k >= 1
        /\ pc \in {"write", "done", "failed"})
    => /\ result = Result("mesh", EmptyMesh, <<>>)
       /\ error = NoError

\* C11: a second run of main on the same arguments hands the same ordered
\* (brick, color) pairs to the mesh export as the first run did.
C11_RerunGivesSamePairs ==
    (first.ran /\ Terminal) => handed = first.pairs

\* the color export_from_json owes each leaf of entry e: the entry's own
\* 'color' under with_colors when it has one, None otherwise
OwedColors(e) ==
    [m \in 1..Len(LeafTypes(e)) |->
        IF with_colors /\ e.color # None THEN e.color ELSE None]

AllNone(cs) == \A n \in 1..Len(cs) : cs[n] = None

\* C12: after any prefix of the entries, 'bricks' and 'colors' have the same
\* length and colors[i] is the color of the entry that produced bricks[i]
\* (its own 'color' under with_colors when it has one, else None); without
\* with_colors every brick is exported with color None.
C12_ColorsParallelToBricks ==
    Collecting =>
        /\ Len(colors) = Len(bricks)
        /\ colors = Flatten([n \in 1..Len(EntriesCollected) |->
                                OwedColors(EntriesCollected[n])])
        /\ ~with_colors =>
              /\ \A n \in 1..Len(bricks) : BrickColor(colors_arg, n) = None
              /\ \A n \in 1..Len(meshes) : AllNone(meshes[n].vcolors)
              /\ \A n \in 1..Len(files) : AllNone(files[n].mesh.vcolors)

\* colored and uncolored entries, one of them a composite, were exported
C12_Witness ==
    /\ caller = "export_from_json" /\ pc = "done" /\ with_colors
    /\ Len(bricks) >= 3 /\ Len(bricks) > Len(EntriesCollected)
    /\ \E a, b \in 1..Len(colors) : colors[a] = None /\ colors[b] # None
    /\ Len(files) = 1 /\ ~AllNone(files[1].mesh.vcolors)

\* the lower-cased text after the last dot of a path
AfterLastDot(p) == LowerStr(SubSeq(p, LastIndex(p, ".") + 1, Len(p)))

\* the format main chooses: --format, else the suffix of --output, else obj
ChosenFormat ==
    IF args.format # None THEN args.format
    ELSE IF /\ LastIndex(args.output, ".") > 0
            /\ AfterLastDot(args.output) \in FormatChoices \cup {FmtGltf}
         THEN AfterLastDot(args.output)
         ELSE FmtObj

\* the file type a format name stands for: gltf is written as glb
TypeNamed(f) == IF f = FmtGltf THEN FmtGlb ELSE f

\* C13: a mesh written with no format given is written in the format named
\* by the lower-cased text after the last dot of its path, and every path
\* main hands to export_to_file ends with "." and the chosen format, for
\* every combination of --output and --format.
C13_PathEndsWithChosenFormat ==
    args.given =>
        \A n \in 1..Len(files) :
            /\ EndsWith(files[n].path, <<".">> \o ChosenFormat)
            /\ mode = "json_path" =>
                  files[n].file_type = TypeNamed(AfterLastDot(files[n].path))

\* n < 1000 written with three decimal digits
ThreeDigits(n) ==
    <<DigitChar(n \div 100), DigitChar((n \div 10) % 10), DigitChar(n % 10)>>

\* "<output without extension>_<i, three digits><extension>"
IndexedPath(n) ==
    splitext(output_path).root \o <<"_">> \o ThreeDigits(n) \o splitext(output_path).ext

\* C14: in separate mode with a list of M meshes main writes the i-th mesh
\* (0-based), in input order, to "<output without extension>_<i padded to
\* three digits><extension>"; once it is done exactly M files are written,
\* their names are pairwise distinct and the output path itself is not one
\* of them.
C14_SeparateWritesOneFilePerMesh ==
    (MeshesSet /\ pc \in {"export", "done"}) =>
        /\ Len(files) = w /\ w <= Len(result.list)
        /\ pc = "done" => Len(files) = Len(bricks)
        /\ \A n \in 1..Len(files) :
              /\ files[n].path = IndexedPath(n - 1)
              /\ files[n].mesh = PerBrickMesh(n)
              /\ files[n].path # output_path
        /\ \A a, b \in 1..Len(files) : a # b => files[a].path # files[b].path

\* a separate export of three bricks has written its three files
C14_Witness ==
    /\ MeshesSet /\ pc = "done"
    /\ Len(bricks) = 3 /\ Len(files) = 3
    /\ files[1].mesh # files[3].mesh

Min(a, b) == IF a <= b THEN a ELSE b

\* the quaternion a --rotations value stands for
QuatOfArg(r) == CASE r = <<"0", ",", "0", ",", "0", ",", "1">> -> Z180
                  [] r = <<"0", ",", "1", ",", "0", ",", "0">> -> <<0, 1, 0, 0>>

\* main's custom-assembly loop is over
CustomBuilt == mode = "brick_types" /\ pc \in {"mesh", "export", "done", "failed"}

\* C15: in main's custom-assembly mode min(#types, #positions) bricks are
\* built; brick i has brick_types[i], positions[i] and the orientation
\* rotations[i] when --rotations has an i-th value, the identity otherwise;
\* no brick is built at or after the first missing position.
C15_CustomAssemblyPairsArguments ==
    /\ (mode = "brick_types" /\ pc = "custom") =>
            Len(bricks) = i - 1 /\ Len(bricks) <= Len(args.positions)
    /\ CustomBuilt =>
        /\ Len(bricks) = Min(Len(args.brick_types), Len(args.positions))
        /\ \A n \in 1..Len(bricks) :
              /\ bricks[n].brick_type = args.brick_types[n]
              /\ bricks[n].position = <<10 * n, 0, 0>>
              /\ bricks[n].rotation =
                    IF n <= Len(args.rotations) THEN QuatOfArg(args.rotations[n])
                    ELSE IdQ

\* three types, two positions, one rotation: two bricks, the second upright
C15_Witness ==
    /\ mode = "brick_types" /\ pc = "done"
    /\ Len(args.brick_types) = 3 /\ Len(args.positions) = 2
    /\ Len(args.rotations) = 1
    /\ Len(bricks) = 2
    /\ bricks[1].rotation # IdQ /\ bricks[2].rotation = IdQ

\* C16: create_custom_assembly builds min(#types, #positions) bricks; brick i
\* has brick_types[i] and positions[i]; its orientation is rotations[i] when
\* 'rotations' is a list as long as brick_types, and the identity (all the
\* caller's rotations being discarded) when it is None or of another length.
C16_RotationsUsedOnlyAtEqualLength ==
    /\ (caller = "create_custom_assembly" /\ pc = "assembly") => Len(bricks) = i - 1
    /\ (caller = "create_custom_assembly" /\ pc = "rendered") =>
        /\ Len(bricks) = Min(Len(args.brick_types), Len(args.positions))
        /\ \A n \in 1..Len(bricks) :
              /\ bricks[n].brick_type = args.brick_types[n]
              /\ bricks[n].position = args.positions[n]
              /\ bricks[n].rotation =
                    IF /\ args.rotations # None
                       /\ Len(args.rotations[1]) = Len(args.brick_types)
                    THEN args.rotations[1][n]
                    ELSE IdQ

\* two rotations were passed for three bricks: all three are built upright
C16_Witness ==
    /\ caller = "create_custom_assembly" /\ pc = "rendered"
    /\ args.rotations # None /\ Len(args.rotations[1]) = 2
    /\ Len(args.brick_types) = 3 /\ Len(bricks) = 3
    /\ \A n \in 1..3 : bricks[n].rotation = IdQ

\* the input options in their order of precedence, and which are given
ModeOrder == <<"brick_type", "brick_types", "json_path", "bricks_pc_path">>
GivenOption(name) ==
    CASE name = "brick_type" -> args.brick_type # Absent
      [] name = "brick_types" -> args.brick_types # None
      [] name = "json_path" -> args.json_path # None
      [] name = "bricks_pc_path" -> args.bricks_pc_path # None
\* the first given option, "none" when there is none
FirstGiven ==
    IF \E n \in 1..4 : GivenOption(ModeOrder[n])
    THEN ModeOrder[CHOOSE n \in 1..4 :
                      /\ GivenOption(ModeOrder[n])
                      /\ \A m \in 1..(n - 1) : ~GivenOption(ModeOrder[m])]
    ELSE "none"

\* main exits with status 1: no input option, or types without positions
MustExit == FirstGiven = "none" \/ (FirstGiven = "brick_types" /\ args.positions = None)

\* calls of export_to_file made so far: one per file, and the one that raised
ExportCalls == Len(files) + (IF error.kind = "AttributeError" THEN 1 ELSE 0)

\* C17: main processes exactly one input mode, the first given of
\* --brick_type, --brick_types, --json_path, --bricks_pc_path; it exits with
\* status 1 and writes nothing when none is given or when the types come
\* without positions; in merged mode export_to_file is called at most once
\* and exactly once in a run that completes, a JSON input being written by
\* export_from_json alone.
C17_OneModeOneWrite ==
    (args.given /\ caller # "create_custom_assembly" /\ pc \notin {"main", "dispatch"}) =>
        /\ MustExit <=> pc = "exit"
        /\ pc = "exit" => (files = <<>> /\ error = Err("SystemExit", 1))
        /\ ~MustExit => mode = FirstGiven
        /\ mode # "json_path" => operations = <<>>
        /\ mode = "json_path" => operations = args.json_path[1]
        /\ mode \in {"none", "brick_type"} => bricks = <<>>
        /\ mode = "bricks_pc_path" => bricks = args.bricks_pc_path[1]
        /\ ~MeshesSet =>
              /\ ExportCalls <= 1
              /\ pc = "done" =>
                    /\ Len(files) = 1
                    /\ files[1].path = output_path
                    /\ mode = "json_path" <=> caller = "export_from_json"

\* --json_path and --bricks_pc_path were both given: the JSON input alone was
\* processed and written once
C17_Witness ==
    /\ args.given /\ pc = "done"
    /\ args.brick_type = Absent /\ args.brick_types = None
    /\ args.json_path # None /\ args.bricks_pc_path # None
    /\ mode = "json_path"
    /\ Len(bricks) >= 1
    /\ Len(files) = 1

====
